---- MODULE Spec2Model ----
(***************************************************************************)
(* Model of the google-trends-slack jobs.                                  *)
(*   "seen"     : src/unnamed/part_000 (RSS feed + Redis seen set)         *)
(*   "ranked"   : src/index.js         (RSS + SerpApi volume, sorted)      *)
(*   "realtime" : src/unnamed/part_003 (realtime JSON API)                 *)
(* One run of a job is one process: main(), then its .catch handler on a   *)
(* rejection, then (seen variant) its .finally handler.  Every await is a  *)
(* step boundary; the synchronous code between two awaits is one action.   *)
(***************************************************************************)
EXTENDS Integers, Sequences, FiniteSets, TLC

\* ------------------------------------------------------------------ bounds
MaxFeedLen == 3
MaxRuns == 3

\* part_000:10  MAX_ITEMS = Number(process.env.MAX_ITEMS || 20); the model
\* runs the job with MAX_ITEMS=2 in the environment so that slicing happens.
MAX_ITEMS == 2

\* part_000:12-14  RSS_URLS has one element
NumRssUrls == 1
\* part_003:15-20  REALTIME_URLS has two elements
NumRealtimeUrls == 2

\* it.title absent (undefined); it is not a string
Undefined == << "undefined" >>

\* an optional value: <<>> when absent, <<v>> when present
None == <<>>
Some(v) == <<v>>

\* ------------------------------------------------------------- normalize
\* Characters are one-character strings; a title is a sequence of them.
IsSpace(c) == c \in {" ", "\t"}

\* "a_acute" and "A_acute" stand for the precomposed letters U+00E1 and
\* U+00C1, "COMB_ACUTE" for the combining mark U+0301, "^" for U+005E.
LowerChar(c) ==
  CASE c = "A" -> "a"
    [] c = "B" -> "b"
    [] c = "A_acute" -> "a_acute"
    [] OTHER -> c

ToLowerCase(s) == [i \in 1..Len(s) |-> LowerChar(s[i])]

RECURSIVE TrimStart(_)
TrimStart(s) ==
  IF s = <<>> THEN <<>>
  ELSE IF IsSpace(Head(s)) THEN TrimStart(Tail(s)) ELSE s

RECURSIVE TrimEnd(_)
TrimEnd(s) ==
  IF s = <<>> THEN <<>>
  ELSE IF IsSpace(s[Len(s)]) THEN TrimEnd(SubSeq(s, 1, Len(s) - 1)) ELSE s

Trim(s) == TrimEnd(TrimStart(s))

\* s.replace(/\s+/g, " ") : every maximal run of whitespace becomes one " "
RECURSIVE CollapseWs(_)
CollapseWs(s) ==
  IF s = <<>> THEN <<>>
  ELSE IF IsSpace(Head(s))
       THEN <<" ">> \o CollapseWs(TrimStart(s))
       ELSE <<Head(s)>> \o CollapseWs(Tail(s))

\* part_000:23  (s || "").toLowerCase().trim().replace(/\s+/g, " ")
normalize(s) ==
  LET str == IF s = Undefined THEN <<>> ELSE s
  IN  CollapseWs(Trim(ToLowerCase(str)))

\* String.prototype.normalize("NFD"): canonical decomposition
RECURSIVE NFD(_)
NFD(s) ==
  IF s = <<>> THEN <<>>
  ELSE (CASE Head(s) = "a_acute" -> <<"a", "COMB_ACUTE">>
          [] Head(s) = "A_acute" -> <<"A", "COMB_ACUTE">>
          [] OTHER -> <<Head(s)>>) \o NFD(Tail(s))

\* \p{Diacritic}
IsDiacritic(c) == c \in {"COMB_ACUTE", "^"}

\* s.replace(/\p{Diacritic}/gu, "")
RECURSIVE StripMarks(_)
StripMarks(s) ==
  IF s = <<>> THEN <<>>
  ELSE IF IsDiacritic(Head(s)) THEN StripMarks(Tail(s))
       ELSE <<Head(s)>> \o StripMarks(Tail(s))

\* Variant of stripDiacritics that removes the marks as its last step.
stripDiacriticsLast(s) ==
  LET str == IF s = Undefined THEN <<>> ELSE s
  IN  StripMarks(NFD(CollapseWs(Trim(ToLowerCase(str)))))

\* index.js:27-34 stripDiacritics: String(s || ""), NFD, strip marks,
\* lowercase, trim, collapse whitespace
stripDiacritics(s) ==
  LET str == IF s = Undefined THEN <<>> ELSE s
  IN  CollapseWs(Trim(ToLowerCase(StripMarks(NFD(str)))))

\* index.js:35 normalize of the ranked variant
normalizeIx(s) == stripDiacritics(s)

\* ---------------------------------------------------------------- volume
\* A raw volume is null, a number or a string; numbers are non-negative
\* integers, strings are character sequences.
VNull == [t |-> "null", n |-> 0, s |-> <<>>]
VNum(k) == [t |-> "num", n |-> k, s |-> <<>>]
VStr(q) == [t |-> "str", n |-> 0, s |-> q]

Digits == <<"0", "1", "2", "3", "4", "5", "6", "7", "8", "9">>
IsDigit(c) == \E d \in 1..10 : Digits[d] = c
DigitVal(c) == (CHOOSE d \in 1..10 : Digits[d] = c) - 1

\* String(n) of a non-negative integer
RECURSIVE ToDigits(_)
ToDigits(n) ==
  IF n < 10 THEN <<Digits[n + 1]>>
  ELSE ToDigits(n \div 10) \o <<Digits[(n % 10) + 1]>>

RECURSIVE DigitsVal(_)
DigitsVal(s) ==
  IF s = <<>> THEN 0 ELSE DigitsVal(SubSeq(s, 1, Len(s) - 1)) * 10 + DigitVal(s[Len(s)])

AllDigits(s) == \A i \in 1..Len(s) : IsDigit(s[i])

\* s.replace(/,/g, "")
RECURSIVE NoCommas(_)
NoCommas(s) ==
  IF s = <<>> THEN <<>>
  ELSE IF Head(s) = "," THEN NoCommas(Tail(s))
       ELSE <<Head(s)>> \o NoCommas(Tail(s))

\* Number(str) for the strings of the model: None is NaN.  Surrounding
\* whitespace is ignored and the empty string is 0.
ToNumber(str) ==
  LET t == Trim(str)
  IN  IF AllDigits(t) THEN Some(DigitsVal(t)) ELSE None

\* String(v)
ToStr(v) == IF v.t = "num" THEN ToDigits(v.n) ELSE v.s

\* /[KMB]\+?$/.test(t)
EndsInUnit(t) ==
  \/ Len(t) >= 1 /\ t[Len(t)] \in {"K", "M", "B"}
  \/ Len(t) >= 2 /\ t[Len(t)] = "+" /\ t[Len(t) - 1] \in {"K", "M", "B"}

\* Math.round(n / d) for non-negative integers: halves round up
RoundDiv(n, d) == (n \div d) + (IF 2 * (n % d) >= d THEN 1 ELSE 0)

\* part_002:48-62 formatVolume, the variant without the small-number rule
formatVolume002(v) ==
  IF v.t = "null" THEN <<"-">>
  ELSE IF v.t = "str" /\ EndsInUnit(Trim(v.s)) THEN Trim(v.s)
  ELSE LET num == ToNumber(NoCommas(ToStr(v)))
       IN  IF num = None THEN ToStr(v)
           ELSE LET n == num[1]
                IN  IF n >= 1000000000 THEN ToDigits(RoundDiv(n, 1000000000)) \o <<"B", "+">>
                    ELSE IF n >= 1000000 THEN ToDigits(RoundDiv(n, 1000000)) \o <<"M", "+">>
                    ELSE IF n >= 1000 THEN ToDigits(RoundDiv(n, 1000)) \o <<"K", "+">>
                    ELSE ToDigits(n)

\* index.js:43-55 formatVolume
formatVolume(v) ==
  IF v.t = "null" THEN <<"-">>
  ELSE IF v.t = "str" /\ EndsInUnit(Trim(v.s)) THEN Trim(v.s)
  ELSE LET num == ToNumber(NoCommas(ToStr(v)))
       IN  IF num = None THEN ToStr(v)
           ELSE LET n == num[1]
                IN  IF n >= 1 /\ n < 1000 THEN ToDigits(n) \o <<"K", "+">>
                    ELSE IF n >= 1000000000 THEN ToDigits(RoundDiv(n, 1000000000)) \o <<"B", "+">>
                    ELSE IF n >= 1000000 THEN ToDigits(RoundDiv(n, 1000000)) \o <<"M", "+">>
                    ELSE IF n >= 1000 THEN ToDigits(RoundDiv(n, 1000)) \o <<"K", "+">>
                    ELSE ToDigits(n)

\* the unit letter of /^(\d+(?:\.\d+)?)([KMB])\+?$/i, upper-cased
UnitOf(c) ==
  CASE c \in {"K", "k"} -> "K"
    [] c \in {"M", "m"} -> "M"
    [] c \in {"B", "b"} -> "B"
    [] OTHER -> ""

UnitFactor(u) == CASE u = "K" -> 1000 [] u = "M" -> 1000000 [] u = "B" -> 1000000000

\* index.js:61 the match of /^(\d+(?:\.\d+)?)([KMB])\+?$/i on s: None, or
\* the integer digits, the fraction digits and the unit
MatchUnit(s) ==
  LET body == IF Len(s) >= 1 /\ s[Len(s)] = "+" THEN SubSeq(s, 1, Len(s) - 1) ELSE s
      num == SubSeq(body, 1, Len(body) - 1)
      dots == { i \in 1..Len(num) : num[i] = "." }
  IN  IF Len(body) < 2 \/ UnitOf(body[Len(body)]) = "" THEN None
      ELSE IF dots = {} THEN
             IF AllDigits(num)
             THEN Some([int |-> num, frac |-> <<>>, unit |-> UnitOf(body[Len(body)])])
             ELSE None
      ELSE LET d == CHOOSE i \in dots : TRUE
               ip == SubSeq(num, 1, d - 1)
               fp == SubSeq(num, d + 1, Len(num))
           IN  IF Cardinality(dots) = 1 /\ ip # <<>> /\ fp # <<>> /\ AllDigits(ip) /\ AllDigits(fp)
               THEN Some([int |-> ip, frac |-> fp, unit |-> UnitOf(body[Len(body)])])
               ELSE None

RECURSIVE Pow10(_)
Pow10(k) == IF k = 0 THEN 1 ELSE 10 * Pow10(k - 1)

\* index.js:57-75 volumeToNumber of a formatted or raw string.  A fraction
\* has at most three digits, so val * unit is an integer.
volumeToNumber(str) ==
  LET s == Trim(str)
      m == MatchUnit(s)
  IN  IF m # None
      THEN LET f == UnitFactor(m[1].unit)
           IN  DigitsVal(m[1].int) * f + DigitsVal(m[1].frac) * (f \div Pow10(Len(m[1].frac)))
      ELSE LET num == ToNumber(NoCommas(s))
           IN  IF num = None THEN 0
               ELSE IF num[1] >= 1 /\ num[1] < 1000 THEN num[1] * 1000
               ELSE num[1]

\* ------------------------------------------------------------ input pools
\* Titles the upstream feed may carry (it.title may be missing).
TitlePool ==
  { Undefined, <<"A", " ">>, <<"a">>, <<"b", "\t", " ", "A">> }

Regions == {"GR", "US"}

RECURSIVE SeqsUpTo(_, _)
SeqsUpTo(S, n) ==
  IF n = 0 THEN { <<>> }
  ELSE LET shorter == SeqsUpTo(S, n - 1)
       IN  shorter \cup { Append(q, x) : q \in { r \in shorter : Len(r) = n - 1 }, x \in S }

Feeds == SeqsUpTo(TitlePool, MaxFeedLen)

\* Array.prototype.slice(0, n)
Slice(s, n) == SubSeq(s, 1, IF Len(s) < n THEN Len(s) ELSE n)

Range(s) == { s[i] : i \in 1..Len(s) }


\* ------------------------------------------------------------------ state
VARIABLES
  variant,     \* which job script this deployment runs
  GEO,         \* process.env.GEO of the current run
  pc,          \* position of the current run
  runs,        \* number of runs started so far
  urlIdx,      \* loop index over the candidate URLs
  lastErr,     \* lastErr / last of the fetch loop
  contacted,   \* URLs requested so far in this run, in request order
  items,       \* current batch (titles) after slice(0, MAX_ITEMS)
  seen,        \* snapshot returned by redis.smembers(SEEN_KEY); None before it resolves
  enriched,    \* items with key and isNew
  store,       \* Redis: region -> set stored under gt:seen:<region>
  posts,       \* webhook posts attempted in this run, in order
  err,         \* the rejection main() ended with, "none" if it did not reject
  exitCode,    \* process exit status of the current run
  quitCount,   \* number of redis.quit() calls in this run
  unhandled,   \* a rejection left the promise chain unhandled
  written,     \* keys the pipeline of this run stored; None before exec
  hist,        \* history: per region, keys of earlier batches / of earlier persisted batches
  serp,        \* trending entries of the SerpApi response (ranked variant)
  rankedRows,  \* rows of the ranked variant handed to buildBlocks; None before they are built
  arg,         \* helper under evaluation and its input (helper evaluation only)
  result       \* its output; None before the call returns

vars == << variant, GEO, pc, runs, urlIdx, lastErr, contacted, items, seen, enriched,
           store, posts, err, exitCode, quitCount, unhandled, written, hist,
           serp, rankedRows, arg, result >>

Variants == {"seen", "ranked", "realtime"}

Keys == { normalize(t) : t \in TitlePool }

NoHist == [r \in Regions |-> [batch |-> {}, persisted |-> {}]]

NoArg == [f |-> "none", x |-> <<>>, y |-> <<>>]

Init ==
  /\ variant \in Variants
  /\ GEO \in Regions
  /\ pc = "fetch"
  /\ runs = 1
  /\ urlIdx = 1
  /\ lastErr = ""
  /\ contacted = <<>>
  /\ items = <<>>
  /\ seen = None
  /\ enriched = <<>>
  /\ store = [r \in Regions |-> {}]
  /\ posts = <<>>
  /\ err = "none"
  /\ exitCode = 0
  /\ quitCount = 0
  /\ unhandled = FALSE
  /\ written = None
  /\ hist = NoHist
  /\ serp = <<>>
  /\ rankedRows = None
  /\ arg = NoArg
  /\ result = None


\* One webhook request: postToSlack(blocks, text).  ok is res.ok.
Post(kind, rows, ok) == [kind |-> kind, rows |-> rows, ok |-> ok]

\* ====================================================== seen-set variant
\* part_000:34-46 fetchFeed, one iteration of the for loop, and part_000:74-77
\* when it returns: the batch is sliced and smembers is issued.
FetchFeedStep ==
  /\ variant = "seen" /\ pc = "fetch" /\ urlIdx <= NumRssUrls
  /\ contacted' = Append(contacted, urlIdx)
  /\ \/ \E feed \in Feeds :                       \* parsed, items present
          /\ Len(feed) > 0
          /\ items' = Slice(feed, MAX_ITEMS)
          /\ pc' = "smembers"
          /\ UNCHANGED << urlIdx, lastErr >>
     \/ /\ urlIdx' = urlIdx + 1                   \* parsed but empty
        /\ lastErr' = "empty"
        /\ UNCHANGED << items, pc >>
     \/ /\ urlIdx' = urlIdx + 1                   \* parseURL threw
        /\ lastErr' = "fail"
        /\ UNCHANGED << items, pc >>
  /\ UNCHANGED << unhandled, variant, GEO, runs, seen, enriched, store, posts, err,
                  exitCode, quitCount, written, hist >>
  /\ UNCHANGED << serp, rankedRows, arg, result >>

\* part_000:45 every URL failed or was empty: throw, main() rejects
FetchFeedExhausted ==
  /\ variant = "seen" /\ pc = "fetch" /\ urlIdx > NumRssUrls
  /\ err' = "fetch"
  /\ pc' = "catch"
  /\ UNCHANGED << unhandled, lastErr, variant, GEO, runs, urlIdx, contacted, items, seen, enriched,
                  store, posts, exitCode, quitCount, written, hist >>
  /\ UNCHANGED << serp, rankedRows, arg, result >>

\* Variant of Enrich that looks the display title up in the snapshot.
EnrichRawTitle(its, snapshot) ==
  [i \in 1..Len(its) |->
     [title |-> its[i], key |-> normalize(its[i]), isNew |-> its[i] \notin snapshot]]

\* Variant of Enrich that adds each key to the snapshot as it goes.
EnrichIncremental(its, snapshot) ==
  [i \in 1..Len(its) |->
     LET key == normalize(its[i])
         earlier == { normalize(its[j]) : j \in 1..(i - 1) }
     IN  [title |-> its[i], key |-> key, isNew |-> key \notin (snapshot \cup earlier)]]

\* part_000:78-81 items.map(...)
Enrich(its, snapshot) ==
  [i \in 1..Len(its) |->
     LET key == normalize(its[i])
     IN  [title |-> its[i], key |-> key, isNew |-> key \notin snapshot]]

\* part_000:83 enriched.filter((x) => x.isNew)
RECURSIVE FilterNew(_)
FilterNew(rows) ==
  IF rows = <<>> THEN <<>>
  ELSE IF Head(rows).isNew THEN <<Head(rows)>> \o FilterNew(Tail(rows))
       ELSE FilterNew(Tail(rows))

\* part_000:77-86 smembers resolves: classify the batch, return when nothing
\* is new, else queue the sadd pipeline.
SmembersOk ==
  /\ variant = "seen" /\ pc = "smembers"
  /\ seen' = Some(store[GEO])
  /\ enriched' = Enrich(items, store[GEO])
  /\ pc' = IF Len(FilterNew(enriched')) = 0 THEN "finally" ELSE "exec"
  /\ UNCHANGED << unhandled, lastErr, variant, GEO, runs, urlIdx, contacted, items, store, posts,
                  err, exitCode, quitCount, written, hist >>
  /\ UNCHANGED << serp, rankedRows, arg, result >>

\* part_000:77 smembers rejects (store unreachable): main() rejects
SmembersFail ==
  /\ variant = "seen" /\ pc = "smembers"
  /\ err' = "store"
  /\ pc' = "catch"
  /\ UNCHANGED << unhandled, lastErr, variant, GEO, runs, urlIdx, contacted, items, seen, enriched,
                  store, posts, exitCode, quitCount, written, hist >>
  /\ UNCHANGED << serp, rankedRows, arg, result >>

\* Variant of Sadd that rewrites the set (del, then sadd).
SaddReplace(old, w) == w

\* part_000:86-88 the set stored under SEEN_KEY after the sadd commands that
\* succeeded (w) have been applied
Sadd(old, w) == old \cup w

\* Variant of PipelineExec whose promise rejects when a command failed.
PipelineExecRejects ==
  /\ variant = "seen" /\ pc = "exec"
  /\ \E w \in SUBSET { enriched[i].key : i \in 1..Len(enriched) } :
       /\ store' = [store EXCEPT ![GEO] = Sadd(@, w)]
       /\ written' = Some(w)
       /\ IF w = { enriched[i].key : i \in 1..Len(enriched) }
          THEN pc' = "post" /\ UNCHANGED err
          ELSE pc' = "catch" /\ err' = "store"
  /\ UNCHANGED << unhandled, lastErr, variant, GEO, runs, urlIdx, contacted, items,
                  seen, enriched, posts, exitCode, quitCount, hist >>
  /\ UNCHANGED << serp, rankedRows, arg, result >>

\* Variant of PipelineExec that stores under one key for all regions.
PipelineExecAllRegions ==
  /\ variant = "seen" /\ pc = "exec"
  /\ \E w \in SUBSET { enriched[i].key : i \in 1..Len(enriched) } :
       /\ store' = [r \in Regions |-> Sadd(store[r], w)]
       /\ written' = Some(w)
  /\ pc' = "post"
  /\ UNCHANGED << unhandled, lastErr, variant, GEO, runs, urlIdx, contacted, items, seen, enriched,
                  posts, err, exitCode, quitCount, hist >>
  /\ UNCHANGED << serp, rankedRows, arg, result >>

\* part_000:86-88 pipeline.exec().  A pipeline of a standalone ioredis client
\* resolves with one [err, result] pair per command and does not reject, so
\* a failing sadd only leaves its key out of the stored set.
PipelineExec ==
  /\ variant = "seen" /\ pc = "exec"
  /\ \E w \in SUBSET { enriched[i].key : i \in 1..Len(enriched) } :
       /\ store' = [store EXCEPT ![GEO] = Sadd(@, w)]
       /\ written' = Some(w)
  /\ pc' = "post"
  /\ UNCHANGED << unhandled, lastErr, variant, GEO, runs, urlIdx, contacted, items, seen, enriched,
                  posts, err, exitCode, quitCount, hist >>
  /\ UNCHANGED << serp, rankedRows, arg, result >>

\* Variant of BuildBlocksSeen that shows each key once.
BuildBlocksSeenDedup(rows) ==
  LET firsts == { i \in 1..Len(rows) : \A j \in 1..(i - 1) : rows[j].key # rows[i].key }
      pick == [n \in 1..Cardinality(firsts) |->
                 CHOOSE i \in firsts : Cardinality({ j \in firsts : j < i }) = n - 1]
  IN  [newCount |-> Len(FilterNew(rows)),
       sections |-> [n \in 1..Cardinality(firsts) |->
                       [title |-> rows[pick[n]].title, badge |-> rows[pick[n]].isNew]]]

\* part_000:48-71 buildBlocks: header count and one section per item
BuildBlocksSeen(rows) ==
  [newCount |-> Len(FilterNew(rows)),
   sections |-> [i \in 1..Len(rows) |-> [title |-> rows[i].title, badge |-> rows[i].isNew]]]

\* Variant of PostTrendSeen that posts without awaiting the seen set.
PostTrendSeenEarly ==
  /\ variant = "seen" /\ pc \in {"smembers", "post"}
  /\ \E ok \in BOOLEAN :
       /\ posts' = Append(posts, Post("trend", BuildBlocksSeen(enriched), ok))
       /\ IF ok THEN /\ pc' = "finally"
                     /\ UNCHANGED err
               ELSE /\ pc' = "catch"
                    /\ err' = "delivery"
  /\ UNCHANGED << unhandled, lastErr, variant, GEO, runs, urlIdx, contacted, items, seen, enriched,
                  store, exitCode, quitCount, written, hist >>
  /\ UNCHANGED << serp, rankedRows, arg, result >>

\* part_000:90 and 25-32 postToSlack of the trend payload
PostTrendSeen ==
  /\ variant = "seen" /\ pc = "post"
  /\ \E ok \in BOOLEAN :
       /\ posts' = Append(posts, Post("trend", BuildBlocksSeen(enriched), ok))
       /\ IF ok THEN /\ pc' = "finally"
                     /\ UNCHANGED err
               ELSE /\ pc' = "catch"
                    /\ err' = "delivery"
  /\ UNCHANGED << unhandled, lastErr, variant, GEO, runs, urlIdx, contacted, items, seen, enriched,
                  store, exitCode, quitCount, written, hist >>
  /\ UNCHANGED << serp, rankedRows, arg, result >>

\* Variant of CatchSeen that posts the failure summary outside a try block.
CatchSeenNoTry ==
  /\ variant = "seen" /\ pc = "catch"
  /\ \E ok \in BOOLEAN :
       /\ posts' = Append(posts, Post("failure", err, ok))
       /\ unhandled' = ~ok
       /\ exitCode' = IF ok THEN 1 ELSE exitCode
  /\ pc' = "finally"
  /\ UNCHANGED << lastErr, variant, GEO, runs, urlIdx, contacted, items, seen,
                  enriched, store, err, quitCount, written, hist >>
  /\ UNCHANGED << serp, rankedRows, arg, result >>

\* part_000:94-99 .catch handler: one failure-summary post in try/catch {},
\* then process.exitCode = 1
CatchSeen ==
  /\ variant = "seen" /\ pc = "catch"
  /\ \E ok \in BOOLEAN :
       posts' = Append(posts, Post("failure", err, ok))
  /\ exitCode' = 1
  /\ pc' = "finally"
  /\ UNCHANGED << unhandled, lastErr, variant, GEO, runs, urlIdx, contacted, items, seen, enriched,
                  store, err, quitCount, written, hist >>
  /\ UNCHANGED << serp, rankedRows, arg, result >>

\* History of the finished run (not program state): the keys of the batch
\* it classified, and the same keys again when the run either found nothing
\* new or stored every key of the batch.
BatchKeys == { normalize(items[i]) : i \in 1..Len(items) }
RecordRun(h) ==
  [batch |-> IF seen # None THEN h.batch \cup BatchKeys ELSE h.batch,
   persisted |-> IF seen # None /\ (written = None \/ written = Some(BatchKeys))
                 THEN h.persisted \cup BatchKeys
                 ELSE h.persisted]

\* Variant of FinallySeen that quits at the end of main() only.
FinallySeenOnSuccessOnly ==
  /\ variant = "seen" /\ pc = "finally"
  /\ quitCount' = IF err = "none" THEN quitCount + 1 ELSE quitCount
  /\ pc' = "done"
  /\ UNCHANGED << unhandled, lastErr, variant, GEO, runs, urlIdx, contacted, items,
                  seen, enriched, store, posts, err, exitCode, written, hist >>
  /\ UNCHANGED << serp, rankedRows, arg, result >>

\* part_000:100-102 .finally handler: redis.quit() in try/catch {}
FinallySeen ==
  /\ variant = "seen" /\ pc = "finally"
  /\ quitCount' = quitCount + 1
  /\ pc' = "done"
  /\ UNCHANGED << unhandled, lastErr, variant, GEO, runs, urlIdx, contacted, items, seen, enriched,
                  store, posts, err, exitCode, written, hist >>
  /\ UNCHANGED << serp, rankedRows, arg, result >>

\* ====================================================== realtime variant
\* part_003:90-94 title fallback chain ending in the placeholder
Placeholder == << "-" >>
TitleOrPlaceholder(t) == IF t = Undefined \/ t = <<>> THEN Placeholder ELSE t

\* part_003:86-126 extractRows: at most maxItems stories, in order
extractRows(stories, maxItems) ==
  LET top == Slice(stories, maxItems)
  IN  [i \in 1..Len(top) |-> TitleOrPlaceholder(top[i])]

\* part_003:53-81 fetchRealtimeTrends, one iteration of the for loop.  The
\* fetch() and res.text() awaits are outside the try block.
FetchRealtimeStep ==
  /\ variant = "realtime" /\ pc = "fetch" /\ urlIdx <= NumRealtimeUrls
  /\ contacted' = Append(contacted, urlIdx)
  /\ \/ /\ err' = "fetch"                          \* fetch() rejects: propagates
        /\ pc' = "catch"
        /\ UNCHANGED << urlIdx, items, lastErr >>
     \/ /\ urlIdx' = urlIdx + 1                    \* !res.ok: continue
        /\ lastErr' = "http"
        /\ UNCHANGED << err, pc, items >>
     \/ /\ urlIdx' = urlIdx + 1                    \* JSON.parse threw: caught
        /\ lastErr' = "json"
        /\ UNCHANGED << err, pc, items >>
     \/ \E stories \in Feeds :                     \* parsed: return json
          /\ items' = extractRows(stories, MAX_ITEMS)
          /\ pc' = "post"
          /\ UNCHANGED << err, urlIdx, lastErr >>
  /\ UNCHANGED << unhandled, variant, GEO, runs, seen, enriched, store, posts,
                  exitCode, quitCount, written, hist >>
  /\ UNCHANGED << serp, rankedRows, arg, result >>

\* part_003:83 loop ended without a return: throw
FetchRealtimeExhausted ==
  /\ variant = "realtime" /\ pc = "fetch" /\ urlIdx > NumRealtimeUrls
  /\ err' = "fetch"
  /\ pc' = "catch"
  /\ UNCHANGED << unhandled, lastErr, variant, GEO, runs, urlIdx, contacted, items, seen, enriched,
                  store, posts, exitCode, quitCount, written, hist >>
  /\ UNCHANGED << serp, rankedRows, arg, result >>

\* part_003:155 and 26-36 postToSlack of the table
PostTrendRealtime ==
  /\ variant = "realtime" /\ pc = "post"
  /\ \E ok \in BOOLEAN :
       /\ posts' = Append(posts, Post("trend", items, ok))
       /\ IF ok THEN /\ pc' = "done"
                     /\ UNCHANGED err
               ELSE /\ pc' = "catch"
                    /\ err' = "delivery"
  /\ UNCHANGED << unhandled, lastErr, variant, GEO, runs, urlIdx, contacted, items, seen, enriched,
                  store, exitCode, quitCount, written, hist >>
  /\ UNCHANGED << serp, rankedRows, arg, result >>

\* ======================================================== ranked variant
\* index.js:122-146 fetchTrendingRssTopN: one URL; a rejected fetch, a non-OK
\* status and a parseString error all reject.
FetchRssRanked ==
  /\ variant = "ranked" /\ pc = "fetch"
  /\ contacted' = Append(contacted, 1)
  /\ \/ /\ err' = "fetch"
        /\ pc' = "catch"
        /\ UNCHANGED items
     \/ \E feed \in Feeds :
          /\ items' = [i \in 1..Len(Slice(feed, MAX_ITEMS)) |-> TitleOrPlaceholder(feed[i])]
          /\ pc' = "serp"
          /\ UNCHANGED err
  /\ UNCHANGED << unhandled, lastErr, variant, GEO, runs, urlIdx, seen, enriched, store, posts,
                  exitCode, quitCount, written, hist >>
  /\ UNCHANGED << serp, rankedRows, arg, result >>

\* Entries the SerpApi response may carry: a title (possibly empty) and a
\* raw volume.
MaxSerpLen == 2
SerpTitles == { <<"A_acute">>, <<"b", " ", "a">>, <<"z">>, <<>> }
SerpVolumes == { VNull, VNum(500), VStr(<<"1", "2", ",", "3", "4", "5">>) }
SerpPool == { [title |-> t, volumeRaw |-> v] : t \in SerpTitles, v \in SerpVolumes }
SerpResponses == SeqsUpTo(SerpPool, MaxSerpLen)

\* index.js:160-190 indexVolumeByTitle followed by Map.get(key): the last
\* entry with a non-empty title and that key, None when there is none
VolMapGet(entries, key) ==
  LET hits == { i \in 1..Len(entries) :
                  entries[i].title # <<>> /\ normalizeIx(entries[i].title) = key }
  IN  IF hits = {} THEN None
      ELSE LET last == CHOOSE i \in hits : \A j \in hits : j <= i
               vol == formatVolume(entries[last].volumeRaw)
           IN  Some([volume |-> vol, volumeNum |-> volumeToNumber(vol)])

\* Variant of MergeRows that keeps matched items only.
RECURSIVE MergeRowsInner(_, _)
MergeRowsInner(its, entries) ==
  IF its = <<>> THEN <<>>
  ELSE LET v == VolMapGet(entries, normalizeIx(Head(its)))
       IN  (IF v = None THEN <<>>
            ELSE << [title |-> Head(its), volume |-> v[1].volume, volumeNum |-> v[1].volumeNum] >>)
           \o MergeRowsInner(Tail(its), entries)

\* index.js:261-269 rssTop.map(...): one row per baseline item
MergeRows(its, entries) ==
  [i \in 1..Len(its) |->
     LET v == VolMapGet(entries, normalizeIx(its[i]))
     IN  IF v = None
         THEN [title |-> its[i], volume |-> <<"-">>, volumeNum |-> 0]
         ELSE [title |-> its[i],
               volume |-> IF v[1].volume = <<>> THEN <<"-">> ELSE v[1].volume,
               volumeNum |-> v[1].volumeNum]]

\* Insert r after every row whose volumeNum is at least r.volumeNum.
RECURSIVE InsertDesc(_, _)
InsertDesc(sorted, r) ==
  IF sorted = <<>> THEN <<r>>
  ELSE IF Head(sorted).volumeNum >= r.volumeNum
       THEN <<Head(sorted)>> \o InsertDesc(Tail(sorted), r)
       ELSE <<r>> \o sorted

\* Variant of SortRows with the comparator a.volumeNum - b.volumeNum.
RECURSIVE SortRowsAscending(_)
SortRowsAscending(rs) ==
  IF rs = <<>> THEN <<>>
  ELSE LET rest == SortRowsAscending(Tail(rs))
           r == Head(rs)
           before == { i \in 1..Len(rest) : rest[i].volumeNum < r.volumeNum }
           k == Cardinality(before)
       IN  SubSeq(rest, 1, k) \o <<r>> \o SubSeq(rest, k + 1, Len(rest))

\* index.js:272 rows.sort((a, b) => b.volumeNum - a.volumeNum): stable,
\* descending
RECURSIVE SortRows(_)
SortRows(rs) ==
  IF rs = <<>> THEN <<>>
  ELSE InsertDesc(SortRows(SubSeq(rs, 1, Len(rs) - 1)), rs[Len(rs)])

\* index.js:149-158 fetchSerpApiTrendingNow rejects on a rejected fetch, a
\* non-OK status or a JSON.parse error; when it resolves, index.js:259-275
\* build the volume map, merge, sort and slice the rows and issue the post.
FetchSerp ==
  /\ variant = "ranked" /\ pc = "serp"
  /\ contacted' = Append(contacted, 2)
  /\ \/ /\ err' = "fetch"
        /\ pc' = "catch"
        /\ UNCHANGED << serp, rankedRows >>
     \/ \E entries \in SerpResponses :
          /\ serp' = entries
          /\ rankedRows' = Some(Slice(SortRows(MergeRows(items, entries)), MAX_ITEMS))
          /\ pc' = "post"
          /\ UNCHANGED err
  /\ UNCHANGED << unhandled, lastErr, variant, GEO, runs, urlIdx, items, seen, enriched, store,
                  posts, exitCode, quitCount, written, hist >>
  /\ UNCHANGED << arg, result >>

\* index.js:275 and 78-88 postToSlack of the table resolves or rejects
PostTrendRanked ==
  /\ variant = "ranked" /\ pc = "post"
  /\ \E ok \in BOOLEAN :
       /\ posts' = Append(posts, Post("trend", rankedRows[1], ok))
       /\ IF ok THEN /\ pc' = "done"
                     /\ UNCHANGED err
               ELSE /\ pc' = "catch"
                    /\ err' = "delivery"
  /\ UNCHANGED << unhandled, lastErr, variant, GEO, runs, urlIdx, contacted, items, seen, enriched,
                  store, exitCode, quitCount, written, hist >>
  /\ UNCHANGED << serp, rankedRows, arg, result >>

\* Variant of CatchExit that repeats the failure-summary post once when the
\* first attempt fails.
CatchExitRetry ==
  /\ variant \in {"ranked", "realtime"} /\ pc = "catch"
  /\ \E ok \in BOOLEAN, again \in BOOLEAN :
       posts' = IF ok THEN Append(posts, Post("failure", err, TRUE))
                ELSE Append(Append(posts, Post("failure", err, FALSE)),
                            Post("failure", err, again))
  /\ exitCode' = 1
  /\ pc' = "done"
  /\ UNCHANGED << unhandled, lastErr, variant, GEO, runs, urlIdx, contacted, items, seen, enriched,
                  store, err, quitCount, written, hist >>
  /\ UNCHANGED << serp, rankedRows, arg, result >>

\* index.js:278-287, part_003:158-167 .catch handler: one failure-summary
\* post in try/catch {}, then process.exit(1)
CatchExit ==
  /\ variant \in {"ranked", "realtime"} /\ pc = "catch"
  /\ \E ok \in BOOLEAN :
       posts' = Append(posts, Post("failure", err, ok))
  /\ exitCode' = 1
  /\ pc' = "done"
  /\ UNCHANGED << unhandled, lastErr, variant, GEO, runs, urlIdx, contacted, items, seen, enriched,
                  store, err, quitCount, written, hist >>
  /\ UNCHANGED << serp, rankedRows, arg, result >>

\* The scheduler starts the next run: a fresh process, same Redis.  The
\* finished run enters the history.
NextRun ==
  /\ pc = "done" /\ runs < MaxRuns
  /\ runs' = runs + 1
  /\ GEO' \in Regions
  /\ pc' = "fetch"
  /\ urlIdx' = 1
  /\ lastErr' = ""
  /\ contacted' = <<>>
  /\ items' = <<>>
  /\ seen' = None
  /\ enriched' = <<>>
  /\ posts' = <<>>
  /\ err' = "none"
  /\ exitCode' = 0
  /\ quitCount' = 0
  /\ unhandled' = FALSE
  /\ written' = None
  /\ hist' = [hist EXCEPT ![GEO] = RecordRun(@)]
  /\ serp' = <<>>
  /\ rankedRows' = None
  /\ UNCHANGED << variant, store >>
  /\ UNCHANGED << arg, result >>

Next ==
  \/ FetchFeedStep
  \/ FetchFeedExhausted
  \/ SmembersOk
  \/ SmembersFail
  \/ PipelineExec
  \/ PostTrendSeen
  \/ CatchSeen
  \/ FinallySeen
  \/ FetchRealtimeStep
  \/ FetchRealtimeExhausted
  \/ PostTrendRealtime
  \/ FetchRssRanked
  \/ FetchSerp
  \/ PostTrendRanked
  \/ CatchExit
  \/ NextRun

Spec == Init /\ [][Next]_vars


\* ===================================================== helper evaluation
\* The pure helpers, applied to one input each.
MaxTitleLen == 3

NormAlphabet == {"a", "A", "a_acute", " ", "\t", "^"}
NormInputs == SeqsUpTo(NormAlphabet, MaxTitleLen)

SwapCase(c) ==
  CASE c = "a" -> "A" [] c = "A" -> "a"
    [] c = "a_acute" -> "A_acute" [] c = "A_acute" -> "a_acute"
    [] OTHER -> c

ToggleAccent(c) ==
  CASE c = "a" -> "a_acute" [] c = "a_acute" -> "a"
    [] c = "A" -> "A_acute" [] c = "A_acute" -> "A"
    [] OTHER -> c

InsertAt(x, i, c) == SubSeq(x, 1, i) \o <<c>> \o SubSeq(x, i + 1, Len(x))

\* Titles that differ from x in the case of one letter
CaseEdits(x) == { [x EXCEPT ![i] = SwapCase(x[i])] : i \in 1..Len(x) }
\* ... in the accent of one letter
AccentEdits(x) == { [x EXCEPT ![i] = ToggleAccent(x[i])] : i \in 1..Len(x) }
\* ... in one more whitespace character at either end or next to whitespace
SpaceEdits(x) ==
  { InsertAt(x, i, w) : i \in {0, Len(x)} \cup { j \in 1..Len(x) : IsSpace(x[j]) },
                        w \in {" ", "\t"} }

VolNums ==
  { 0, 1, 500, 999, 1000, 1499, 1500, 12345, 999499, 999500, 999999, 1000000,
    999500000, 1000000000, 2000000000 }

VolStrs ==
  { <<"1", "2", ",", "3", "4", "5">>, <<"2", "0", "0", "K", "+">>,
    <<"1", ".", "5", "M">>, <<"2", "B", "+">>, <<" ", "3", "0", "0", "K", " ">>,
    <<"a", "b", "c">>, <<"5", "0", "0">>, <<"2", "0", "0", "k">>, <<>> }

VolInputs == {VNull} \cup { VNum(k) : k \in VolNums } \cup { VStr(q) : q \in VolStrs }

InitPure ==
  /\ variant = "ranked"
  /\ GEO = "GR"
  /\ pc = "helper"
  /\ runs = 1
  /\ urlIdx = 1
  /\ lastErr = ""
  /\ contacted = <<>>
  /\ items = <<>>
  /\ seen = None
  /\ enriched = <<>>
  /\ store = [r \in Regions |-> {}]
  /\ posts = <<>>
  /\ err = "none"
  /\ exitCode = 0
  /\ quitCount = 0
  /\ unhandled = FALSE
  /\ written = None
  /\ hist = NoHist
  /\ serp = <<>>
  /\ rankedRows = None
  /\ result = None
  /\ \/ \E x \in NormInputs : \E y \in {x} \cup CaseEdits(x) \cup AccentEdits(x) \cup SpaceEdits(x) :
          arg = [f |-> "normalize", x |-> x, y |-> y]
     \/ arg = [f |-> "normalize", x |-> Undefined, y |-> <<>>]
     \/ \E v \in VolInputs : arg = [f |-> "volume", x |-> v, y |-> v]

\* part_000:23 / part_002:25 normalize and index.js:35 normalize, each
\* applied to both titles and once more to its own output
ApplyNormalize ==
  /\ pc = "helper" /\ arg.f = "normalize" /\ result = None
  /\ result' = Some([nx |-> normalize(arg.x), ny |-> normalize(arg.y),
                     nnx |-> normalize(normalize(arg.x)),
                     ix |-> normalizeIx(arg.x), iy |-> normalizeIx(arg.y),
                     iix |-> normalizeIx(normalizeIx(arg.x))])
  /\ UNCHANGED << variant, GEO, pc, runs, urlIdx, lastErr, contacted, items, seen,
                  enriched, store, posts, err, exitCode, quitCount, unhandled,
                  written, hist, serp, rankedRows, arg >>

\* index.js:43-75 and part_002:48-62: formatVolume of both variants,
\* volumeToNumber of the formatted string, and formatVolume of that number
ApplyVolume ==
  /\ pc = "helper" /\ arg.f = "volume" /\ result = None
  /\ result' = Some([fmt |-> formatVolume(arg.x),
                     fmt002 |-> formatVolume002(arg.x),
                     num |-> volumeToNumber(formatVolume(arg.x)),
                     again |-> formatVolume(VNum(volumeToNumber(formatVolume(arg.x))))])
  /\ UNCHANGED << variant, GEO, pc, runs, urlIdx, lastErr, contacted, items, seen,
                  enriched, store, posts, err, exitCode, quitCount, unhandled,
                  written, hist, serp, rankedRows, arg >>

NextPure ==
  \/ ApplyNormalize
  \/ ApplyVolume

SpecPure == InitPure /\ [][NextPure]_vars


\* ================================================================ claims
NumPosts(kind) == Cardinality({ i \in 1..Len(posts) : posts[i].kind = kind })
CurrentKeys == { normalize(items[i]) : i \in 1..Len(items) }
ReadDone == variant = "seen" /\ seen # None
HasNew == \E k \in CurrentKeys : k \notin seen[1]
EnrichedKeys == { enriched[i].key : i \in 1..Len(enriched) }
WriteFailed == written # None /\ written[1] # EnrichedKeys

\* C1: in the seen-set variant the trend payload is posted iff some current
\* key is absent from the snapshot read by the run; when every current key
\* is in the snapshot the run ends with no post, no error and exit code 0.
C1_NotifyIffNew ==
  /\ (variant = "seen" /\ NumPosts("trend") > 0) => (seen # None /\ HasNew)
  /\ (ReadDone /\ pc = "done") =>
        /\ (NumPosts("trend") = 1) <=> HasNew
        /\ ~HasNew => (posts = <<>> /\ err = "none" /\ exitCode = 0 /\ ~unhandled)

C1_Witness ==
  /\ ReadDone /\ pc = "done" /\ Len(items) = 2 /\ seen[1] # {}
  /\ ~HasNew /\ posts = <<>> /\ exitCode = 0

\* C2: every item of the batch is marked isNew exactly when normalize(title)
\* is not in the snapshot; the new keys are the current keys minus the
\* snapshot; the rows keep feed order; the snapshot is the stored set as it
\* was read, whatever the batch contains.
C2_DiffExact ==
  (ReadDone /\ pc # "smembers") =>
     /\ Len(enriched) = Len(items)
     /\ \A i \in 1..Len(items) :
          /\ enriched[i].title = items[i]
          /\ enriched[i].key = normalize(items[i])
          /\ enriched[i].isNew <=> (normalize(items[i]) \notin seen[1])
     /\ { enriched[i].key : i \in { j \in 1..Len(enriched) : enriched[j].isNew } }
          = CurrentKeys \ seen[1]

C2_Witness ==
  /\ ReadDone /\ Len(enriched) = 2
  /\ enriched[1].key = enriched[2].key
  /\ enriched[1].title # enriched[2].title
  /\ enriched[1].isNew /\ enriched[2].isNew
  /\ seen[1] # {}

\* C3: when reading the seen set fails the run degrades: every item is
\* marked isNew=false, nothing is persisted and the trend notification is
\* still posted.
C3_DegradeOnReadFailure ==
  (variant = "seen" /\ pc = "done" /\ err = "store") =>
     /\ NumPosts("trend") = 1
     /\ Len(enriched) = Len(items)
     /\ \A i \in 1..Len(enriched) : ~enriched[i].isNew
     /\ written = None

\* C4: when the write of the current keys fails in a run that found a new
\* item, the run still posts its trend payload, as the first and only
\* notification decided by the diff, and the write failure is no error of
\* the run.
C4_WriteFailureKeepsNotification ==
  (variant = "seen" /\ WriteFailed /\ pc \in {"catch", "finally", "done"}) =>
     /\ Len(posts) >= 1
     /\ posts[1].kind = "trend"
     /\ posts[1].rows = BuildBlocksSeen(enriched)
     /\ err # "store"
     /\ (posts[1].ok => (Len(posts) = 1 /\ err = "none"))

C4_Witness ==
  /\ variant = "seen" /\ WriteFailed /\ pc = "done"
  /\ Len(posts) = 1 /\ posts[1].kind = "trend" /\ posts[1].ok
  /\ posts[1].rows.newCount >= 1
  /\ exitCode = 0

C6_SeenSetOnlyGrows ==
  [][\A r \in Regions : store[r] \subseteq store'[r]]_vars

C6_Witness ==
  /\ variant = "seen" /\ pc = "done" /\ runs = 2
  /\ written # None /\ written[1] # {} /\ written[1] # EnrichedKeys
  /\ seen # None /\ seen[1] # {}
  /\ seen[1] \subseteq store[GEO] /\ store[GEO] # seen[1]

\* C7: a run that aborted on a fetch or parse failure has attempted exactly
\* one post, the failure summary, and whether or not that post succeeded no
\* rejection is left unhandled.
C7_OneFailureSummary ==
  (pc = "done" /\ err = "fetch") =>
     /\ Len(posts) = 1
     /\ posts[1].kind = "failure"
     /\ ~unhandled

C7_Witness ==
  /\ pc = "done" /\ err = "fetch" /\ variant = "seen"
  /\ Len(posts) = 1 /\ posts[1].kind = "failure" /\ ~posts[1].ok

\* C8: a run ends with a non-zero exit code iff a delivery to the webhook
\* failed.
C8_ExitOnlyOnDeliveryError ==
  pc = "done" =>
     ((exitCode # 0) <=> (\E i \in 1..Len(posts) : ~posts[i].ok))

\* C9: the fetcher contacts its candidate URLs in order and raises the fetch
\* error only after every candidate has been tried.
C9_FallbackThroughAllUrls ==
  variant \in {"seen", "realtime"} =>
     /\ contacted = [i \in 1..Len(contacted) |-> i]
     /\ (err = "fetch" =>
           Len(contacted) = IF variant = "seen" THEN NumRssUrls ELSE NumRealtimeUrls)

\* C10: the Redis connection of a run is released exactly once on every way
\* the run ends, and only as the last step of the run.
C10_QuitExactlyOnceAtEnd ==
  variant = "seen" =>
     /\ (pc = "done" => quitCount = 1)
     /\ (pc # "done" => quitCount = 0)

C10_Witness ==
  /\ variant = "seen" /\ pc = "done" /\ quitCount = 1
  /\ err = "delivery" /\ Len(posts) = 2 /\ ~posts[2].ok
  /\ written # None


\* C11: within a run the fetch completes before the diff, the diff before
\* the payload is built and the payload before the post; a step that has
\* completed is not touched by a later one.
C11_StepsInOrder ==
  /\ pc = "fetch" => (seen = None /\ enriched = <<>> /\ rankedRows = None /\ posts = <<>>)
  /\ (variant = "seen" /\ seen # None) => (items # <<>> /\ contacted # <<>>)
  /\ (variant = "seen" /\ NumPosts("trend") > 0) =>
        /\ seen # None
        /\ Len(enriched) = Len(items)
        /\ posts[1].rows = BuildBlocksSeen(enriched)
  /\ (variant = "ranked" /\ rankedRows # None) => contacted = <<1, 2>>
  /\ (variant = "ranked" /\ NumPosts("trend") > 0) =>
        (rankedRows # None /\ posts[1].rows = rankedRows[1])

C11_StepsDoNotOverlap ==
  runs' = runs =>
     /\ (seen # None \/ rankedRows # None) => (items' = items /\ contacted' = contacted)
     /\ posts # <<>> => (seen' = seen /\ enriched' = enriched /\ rankedRows' = rankedRows)

\* C11: the steps of a run are in order at every state and no step changes
\* what an earlier step of the same run produced.
C11_StrictOrder == [](C11_StepsInOrder) /\ [][C11_StepsDoNotOverlap]_vars

C11_Witness ==
  /\ variant = "seen" /\ pc = "done" /\ Len(items) = 2
  /\ seen # None /\ written # None
  /\ Len(posts) = 1 /\ posts[1].kind = "trend" /\ posts[1].ok

\* C12: a run for region GEO changes no other region's seen set, reads the
\* set of GEO only, and marks an item new by the set of GEO only.
C12_RegionIsolation ==
  [][ /\ \A r \in Regions \ {GEO} : store'[r] = store[r]
      /\ (seen = None /\ seen' # None) =>
            /\ seen'[1] = store[GEO]
            /\ \A i \in 1..Len(enriched') :
                  enriched'[i].isNew <=> (enriched'[i].key \notin store[GEO]) ]_vars

C12_Witness ==
  /\ variant = "seen" /\ GEO = "US" /\ seen # None /\ pc = "done"
  /\ store["GR"] # {} /\ written # None /\ written[1] # {}
  /\ \E i \in 1..Len(enriched) : enriched[i].isNew /\ enriched[i].key \in store["GR"]
  /\ ~(store["US"] \subseteq store["GR"])

\* C13: two titles that differ only in letter case, in an accent or in
\* leading, trailing or repeated whitespace have the same key under the
\* normalize of every variant.
C13_SameKeyForSameTrend ==
  (arg.f = "normalize" /\ result # None) =>
     /\ result[1].nx = result[1].ny
     /\ result[1].ix = result[1].iy

\* C14: normalize of each variant is idempotent, and returns the empty
\* string for an absent or empty title.
C14_NormalizeIdempotentTotal ==
  (arg.f = "normalize" /\ result # None) =>
     /\ result[1].nnx = result[1].nx
     /\ result[1].iix = result[1].ix
     /\ (arg.x \in {Undefined, <<>>} => (result[1].nx = <<>> /\ result[1].ix = <<>>))

C14_Witness ==
  /\ arg.f = "normalize" /\ result # None
  /\ arg.x = <<"^", " ", "A">>
  /\ result[1].ix = <<"a">>
  /\ result[1].nx = <<"^", " ", "a">>

KPlus(n) == ToDigits(n) \o <<"K", "+">>

\* C15: formatVolume of every variant gives the placeholder for null,
\* passes a string ending in K, M or B (and optional +) through, renders a
\* number n with 1 <= n < 1000 as "<n>K+", larger ones as rounded B+, M+ or
\* K+; formatVolume(500) = "500K+", formatVolume(1500) = "2K+",
\* formatVolume("12,345") = "12K+".
C15_FormatVolumeRules ==
  (arg.f = "volume" /\ result # None) =>
     \A out \in {result[1].fmt, result[1].fmt002} :
        LET v == arg.x
        IN  /\ v.t = "null" => out = <<"-">>
            /\ (v.t = "str" /\ EndsInUnit(v.s)) => out = v.s
            /\ (v.t = "num" /\ v.n >= 1 /\ v.n < 1000) => out = KPlus(v.n)
            /\ (v.t = "num" /\ v.n >= 1000 /\ v.n < 1000000) => out = KPlus(RoundDiv(v.n, 1000))
            /\ (v.t = "num" /\ v.n >= 1000000 /\ v.n < 1000000000) =>
                  out = ToDigits(RoundDiv(v.n, 1000000)) \o <<"M", "+">>
            /\ (v.t = "num" /\ v.n >= 1000000000) =>
                  out = ToDigits(RoundDiv(v.n, 1000000000)) \o <<"B", "+">>
            /\ v = VNum(0) => out = <<"0">>
            /\ v = VNum(500) => out = <<"5", "0", "0", "K", "+">>
            /\ v = VNum(1500) => out = <<"2", "K", "+">>
            /\ v = VStr(<<"1", "2", ",", "3", "4", "5">>) => out = <<"1", "2", "K", "+">>

\* C16: for every integer x >= 1, formatting the number recovered from
\* formatVolume(x) gives formatVolume(x) again.
C16_VolumeRoundTrip ==
  (arg.f = "volume" /\ result # None /\ arg.x.t = "num" /\ arg.x.n >= 1) =>
     result[1].again = result[1].fmt


Count(seq, t) == Cardinality({ i \in 1..Len(seq) : seq[i] = t })
RowTitles(rs) == [i \in 1..Len(rs) |-> rs[i].title]
HasMatch(title) ==
  \E i \in 1..Len(serp) :
     serp[i].title # <<>> /\ normalizeIx(serp[i].title) = normalizeIx(title)

\* C17: the merged rows are a left outer join of the baseline items with the
\* enrichment on the normalized title: one row per baseline item with the
\* same titles, placeholder volume and 0 for an item without a match, and
\* no row for an enrichment entry without a baseline item.
C17_LeftOuterJoin ==
  (variant = "ranked" /\ rankedRows # None) =>
     LET rs == rankedRows[1]
     IN  /\ Len(rs) = Len(items)
         /\ \A t \in Range(items) \cup Range(RowTitles(rs)) :
               Count(RowTitles(rs), t) = Count(items, t)
         /\ \A i \in 1..Len(rs) :
               ~HasMatch(rs[i].title) => (rs[i].volume = <<"-">> /\ rs[i].volumeNum = 0)
         /\ \A i \in 1..Len(rs) :
               (HasMatch(rs[i].title) /\ rs[i].volumeNum > 0) =>
                  \E j \in 1..Len(serp) :
                     /\ normalizeIx(serp[j].title) = normalizeIx(rs[i].title)
                     /\ rs[i].volume = formatVolume(serp[j].volumeRaw)

C17_Witness ==
  /\ variant = "ranked" /\ rankedRows # None /\ pc = "done"
  /\ Len(items) = 2 /\ Len(serp) = 2
  /\ \E i \in 1..2 : ~HasMatch(items[i])
  /\ \E i \in 1..2 : HasMatch(items[i]) /\ rankedRows[1][i].volumeNum > 0
  /\ \E j \in 1..2 : serp[j].title = <<"z">>

\* C18: when two items of the batch have the same key, the payload has one
\* row for each of them, in feed order, and the run adds that key to the
\* seen set and nothing else.
C18_DuplicateKeyRows ==
  (variant = "seen" /\ NumPosts("trend") > 0) =>
     /\ Len(posts[1].rows.sections) = Len(items)
     /\ \A i \in 1..Len(items) : posts[1].rows.sections[i].title = items[i]
     /\ written # None
     /\ written[1] \subseteq EnrichedKeys
     /\ store[GEO] \ seen[1] = written[1] \ seen[1]
     /\ (Len(enriched) = 2 /\ enriched[1].key = enriched[2].key) =>
           Cardinality(store[GEO] \ seen[1]) <= 1

C18_Witness ==
  /\ variant = "seen" /\ pc = "done" /\ Len(posts) = 1 /\ posts[1].ok
  /\ posts[1].kind = "trend"
  /\ items = << <<"A", " ">>, <<"a">> >>
  /\ Len(posts[1].rows.sections) = 2
  /\ written = Some({ <<"a">> })
  /\ store[GEO] = { <<"a">> }

RECURSIVE FilterVol(_, _)
FilterVol(rs, n) ==
  IF rs = <<>> THEN <<>>
  ELSE IF Head(rs).volumeNum = n THEN <<Head(rs)>> \o FilterVol(Tail(rs), n)
       ELSE FilterVol(Tail(rs), n)

\* C19: the rows of the ranked variant are in non-increasing order of
\* volumeToNumber of their volume, rows without enrichment come after every
\* row with a positive volume, and rows of equal volume keep feed order.
C19_RankedOrder ==
  (variant = "ranked" /\ rankedRows # None) =>
     LET rs == rankedRows[1]
     IN  /\ \A i, j \in 1..Len(rs) :
               i < j => volumeToNumber(rs[i].volume) >= volumeToNumber(rs[j].volume)
         /\ \A i, j \in 1..Len(rs) :
               (rs[i].volumeNum = 0 /\ volumeToNumber(rs[j].volume) > 0) => j < i
         /\ \A i \in 1..Len(rs) :
               FilterVol(rs, rs[i].volumeNum)
                 = FilterVol(MergeRows(items, serp), rs[i].volumeNum)

C19_Witness ==
  /\ variant = "ranked" /\ rankedRows # None /\ Len(items) = 2
  /\ rankedRows[1][1].title = items[2] /\ rankedRows[1][2].title = items[1]
  /\ items[1] # items[2]
  /\ rankedRows[1][1].volumeNum > rankedRows[1][2].volumeNum
  /\ rankedRows[1][2].volumeNum > 0

\* C20: for every key a run classified as new, the run delivered its trend
\* payload or the key is still absent from the seen set after the run.
C20_NoNewTrendLost ==
  (variant = "seen" /\ pc = "done" /\ seen # None) =>
     \A i \in 1..Len(enriched) :
        enriched[i].isNew =>
           \/ \E p \in 1..Len(posts) : posts[p].kind = "trend" /\ posts[p].ok
           \/ enriched[i].key \notin store[GEO]

\* C21: a run posts to the webhook at most twice and never repeats a post:
\* at most one trend payload, at most one failure summary and that only
\* after a step of the run has failed and after any trend post, and no
\* failure summary in a run whose trend payload was delivered.
C21_AtMostTwoPosts ==
  /\ Len(posts) <= 2
  /\ NumPosts("trend") <= 1
  /\ NumPosts("failure") <= 1
  /\ \A i \in 1..Len(posts) :
        posts[i].kind = "failure" =>
           /\ err # "none"
           /\ i = Len(posts)
           /\ \A j \in 1..Len(posts) : posts[j].kind = "trend" => ~posts[j].ok
  /\ \A i \in 1..Len(posts) :
        (posts[i].kind = "trend" /\ posts[i].ok) => (Len(posts) = 1 /\ err = "none")

C21_Witness ==
  /\ variant = "ranked" /\ pc = "done" /\ err = "delivery"
  /\ Len(posts) = 2
  /\ posts[1].kind = "trend" /\ ~posts[1].ok
  /\ posts[2].kind = "failure" /\ ~posts[2].ok

====
